---- MODULE Spec2Model ----
(***************************************************************************)
(* ofxFFmpeg::Recorder (src/src/ofxFFmpeg.cpp, src/src/ofxFFmpeg.h).       *)
(*                                                                         *)
(* Two execution contexts are modelled: the caller (start, stop, addFrame) *)
(* and the draining thread that runs Recorder::processFrame.  Every step   *)
(* of either context is one atomic access to shared state (an atomic       *)
(* load/store, or a critical section of m_queueMtx / m_pipeMtx), so that   *)
(* the interleavings of the two contexts are the interleavings the code    *)
(* allows.                                                                 *)
(*                                                                         *)
(* Time is counted in clock ticks, TicksPerSecond of them per second; the  *)
(* clock is monotonic (two reads may return the same value).  The float    *)
(* arithmetic of the pacing computation is modelled exactly (no rounding). *)
(***************************************************************************)
EXTENDS Integers, Sequences, FiniteSets, TLC

(* ------------------------------ bounds --------------------------------- *)
\* clock ticks per second (resolution of the modelled clock)
TicksPerSecond == 60
\* the clock stops advancing at MaxTime
MaxTime == 6
\* at most MaxOpen calls of popen over a behaviour
MaxOpen == 2
\* at most MaxPush queue entries are produced over a behaviour
MaxPush == 3

(* ---------------------------- data types ------------------------------- *)
\* size_t: the largest value (stands for 2^64 - 1)
SizeMax == 2147483647

\* RecorderSettings as default-constructed (ofxFFmpeg.h:6-17); only the
\* fields the engine reads are kept.
DefaultSettings ==
    [outputPath |-> "output.mp4", allowOverwrite |-> TRUE, fps |-> 30]

\* the output paths a caller passes to start(): empty, or a file that exists
Paths == {"", "exists.mp4"}

\* files present on disk (what ofFile::doesFileExist answers)
ExistingFiles == {"exists.mp4"}

\* the settings a caller may pass to start()
SettingsInputs == [outputPath : Paths, allowOverwrite : BOOLEAN, fps : {30}]

\* no settings (the caller is not inside start())
NoSettings == [outputPath |-> "-", allowOverwrite |-> TRUE, fps |-> 30]

\* the value a call returned: a bool for start, a count for addFrame
Returned(c, b, n) == [call |-> c, ok |-> b, count |-> n]

\* FILE* m_ffmpegPipe: nullptr, or the n-th stream popen returned
NullPipe == 0

\* ofPixels* held by the draining thread: nullptr
NoPixels == [id |-> 0, sub |-> 0, sess |-> 0, own |-> FALSE]

\* the frames a caller passes to addFrame(): not allocated, or allocated with
\* the dimensions of m_settings.videoResolution (fits) or with others
PixelsInputs ==
    {[isAllocated |-> FALSE, fits |-> FALSE],
     [isAllocated |-> TRUE, fits |-> TRUE],
     [isAllocated |-> TRUE, fits |-> FALSE]}

\* no frame (the caller is not inside addFrame())
NoArgPixels == [isAllocated |-> FALSE, fits |-> FALSE]

VARIABLES
    \* ---- Recorder members (ofxFFmpeg.h:39-46)
    m_settings,               \* RecorderSettings
    m_isRecording,            \* std::atomic<bool>
    m_isReady,                \* std::atomic<bool>
    m_shouldQuitProcessing,   \* std::atomic<bool>
    m_ffmpegPipe,             \* FILE*
    m_recordStartTime,        \* TimePoint
    m_nAddedFrames,           \* unsigned int
    m_frames,                 \* LockFreeQueue<ofPixels*>, head first
    \* ---- the draining thread (m_thread running processFrame)
    tpc,                      \* its position; "none": never started,
                              \* "done": returned (still joinable)
    pixels,                   \* processFrame: ofPixels* pixels
    fwritten,                 \* processFrame: outcome of the fwrite
    usedPipe,                 \* the stream the fwrite went to
    needsQuit,                \* processFrame: bool needsQuit
    \* ---- the caller
    cpc,                      \* its position
    settings,                 \* start: argument settings
    forceIfNotReady,          \* start: argument forceIfNotReady
    argPixels,                \* addFrame: argument pixels
    framesToWrite,            \* addFrame: const size_t framesToWrite
    written,                  \* addFrame: size_t written
    ret,                      \* the last call and the value it returned
    \* ---- environment and history
    now,                      \* Clock::now()
    nOpened,                  \* number of popen calls that succeeded
    nPushed,                  \* number of queue entries ever produced
    sinkLog,                  \* frames received by the sinks, in order
    forced,                   \* a forced restart has happened
    cancelled,                \* a forced restart has cleared the queue under
                              \* the draining thread that is now running
    writeFailed,              \* a sink write has failed
    sessionStart              \* the clock reading at which start() opened the
                              \* running session, while that session has no
                              \* frame yet; 0 otherwise

recVars == <<m_settings, m_isRecording, m_isReady, m_shouldQuitProcessing,
             m_ffmpegPipe, m_recordStartTime, m_nAddedFrames, m_frames>>
thrVars == <<tpc, pixels, fwritten, usedPipe, needsQuit>>
callVars == <<cpc, settings, forceIfNotReady, argPixels, framesToWrite, written,
              ret>>
envVars == <<now, nOpened, nPushed, sinkLog, forced, cancelled, writeFailed,
             sessionStart>>
vars == <<recVars, thrVars, callVars, envVars>>

(* ------------------------- pure helpers -------------------------------- *)
\* ofFile::doesFileExist (ofxFFmpeg.cpp:63)
doesFileExist(path) == path \in ExistingFiles

\* float -> size_t conversion of delta * fps, where delta * fps = num / den
\* exactly.  A value > -1 truncates towards zero; a value <= -1 is out of
\* range of size_t, which is undefined: the builds produce 0 (saturating
\* conversion) or a wrapped value.
SizeTOf(num, den) ==
    IF num >= 0 THEN {num \div den}
    ELSE IF num > -den THEN {0}
    ELSE {0, SizeMax}

\* delta * fps without the recorded duration: the elapsed time alone
DueNum_elapsedOnly(t, start, n, fps) == (t - start) * fps

\* delta * fps of addFrame / wantsFrame (ofxFFmpeg.cpp:131-132, 164-165):
\* ((now - start) - n / fps) * fps, as the fraction DueNum / TicksPerSecond
DueNum(t, start, n, fps) == (t - start) * fps - n * TicksPerSecond

\* framesToWrite - 1 in size_t arithmetic (ofxFFmpeg.cpp:176)
SizeMinusOne(n) == IF n = 0 THEN SizeMax ELSE n - 1

\* LockFreeQueue::produce / consume / size
produce(q, e) == Append(q, e)
consumeHead(q) == Head(q)
consumeRest(q) == Tail(q)

\* Recorder::isPipeOpen (ofxFFmpeg.cpp:321-325)
isPipeOpen == m_ffmpegPipe # NullPipe

\* Recorder::numFramesInQueue (ofxFFmpeg.cpp:278-282)
numFramesInQueue == Len(m_frames)

\* Recorder::closePipe (ofxFFmpeg.cpp:302-319): pclose, then the handle is
\* nulled and the recorder is ready, all under m_pipeMtx
closePipe ==
    /\ m_ffmpegPipe' = NullPipe
    /\ m_isReady' = TRUE

(* ------------------------------ Init ----------------------------------- *)
\* Recorder::Recorder (ofxFFmpeg.cpp:26-29) and the member initialisers
Init ==
    /\ m_settings = DefaultSettings
    /\ m_isRecording = FALSE
    /\ m_isReady = TRUE
    /\ m_shouldQuitProcessing = FALSE
    /\ m_ffmpegPipe = NullPipe
    /\ m_recordStartTime = 0
    /\ m_nAddedFrames = 0
    /\ m_frames = << >>
    /\ tpc = "none"
    /\ pixels = NoPixels
    /\ fwritten = "none"
    /\ usedPipe = NullPipe
    /\ needsQuit = FALSE
    /\ cpc = "idle"
    /\ settings = NoSettings
    /\ forceIfNotReady = FALSE
    /\ argPixels = NoArgPixels
    /\ framesToWrite = 0
    /\ written = 0
    /\ ret = Returned("none", FALSE, 0)
    /\ now = 0
    /\ nOpened = 0
    /\ nPushed = 0
    /\ sinkLog = << >>
    /\ forced = FALSE
    /\ cancelled = FALSE
    /\ writeFailed = FALSE
    /\ sessionStart = 0

(* ------------------------- caller: start ------------------------------- *)
\* leaving start() with value v
startReturn(v) ==
    /\ cpc' = "idle"
    /\ ret' = Returned("start", v, 0)
    /\ settings' = NoSettings
    /\ forceIfNotReady' = FALSE
    /\ UNCHANGED <<argPixels, framesToWrite, written>>

\* inside start(), moving to position p
startGoto(p) ==
    /\ cpc' = p
    /\ UNCHANGED <<settings, forceIfNotReady, argPixels, framesToWrite, written, ret>>

\* the caller calls start( settings, forceIfNotReady )
start_call ==
    /\ cpc = "idle"
    /\ nOpened < MaxOpen
    /\ \E s \in SettingsInputs, f \in BOOLEAN :
          /\ settings' = s
          /\ forceIfNotReady' = f
    /\ cpc' = "start"
    /\ ret' = Returned("none", FALSE, 0)
    /\ UNCHANGED <<argPixels, framesToWrite, written>>
    /\ UNCHANGED <<recVars, thrVars, envVars>>

\* start_checkRecording without the return when already recording
start_checkRecording_noReturn ==
    /\ cpc = "start"
    /\ startGoto("start_ready")
    /\ UNCHANGED <<recVars, thrVars, envVars>>

\* ofxFFmpeg.cpp:42-45
start_checkRecording ==
    /\ cpc = "start"
    /\ IF m_isRecording THEN startReturn(FALSE) ELSE startGoto("start_ready")
    /\ UNCHANGED <<recVars, thrVars, envVars>>

\* ofxFFmpeg.cpp:47-56 (the quit flag is set at line 50)
start_checkReady ==
    /\ cpc = "start_ready"
    /\ IF m_isReady
          THEN /\ startGoto("start_settings")
               /\ UNCHANGED <<m_shouldQuitProcessing, forced>>
          ELSE IF forceIfNotReady
                  THEN /\ m_shouldQuitProcessing' = TRUE
                       /\ forced' = TRUE
                       /\ startGoto("start_clear")
                  ELSE /\ startReturn(FALSE)
                       /\ UNCHANGED <<m_shouldQuitProcessing, forced>>
    /\ UNCHANGED <<m_settings, m_isRecording, m_isReady, m_ffmpegPipe,
                   m_recordStartTime, m_nAddedFrames, m_frames>>
    /\ UNCHANGED <<now, nOpened, nPushed, sinkLog, cancelled, writeFailed, sessionStart>>
    /\ UNCHANGED thrVars

\* Recorder::clearQueue (ofxFFmpeg.cpp:265-276), called at line 51
clearQueue == m_frames' = << >>

start_clearQueue ==
    /\ cpc = "start_clear"
    /\ clearQueue
    /\ cancelled' = (tpc \notin {"none", "done"})
    /\ startGoto("start_settings")
    /\ UNCHANGED <<m_settings, m_isRecording, m_isReady, m_shouldQuitProcessing,
                   m_ffmpegPipe, m_recordStartTime, m_nAddedFrames>>
    /\ UNCHANGED <<now, nOpened, nPushed, sinkLog, forced, writeFailed, sessionStart>>
    /\ UNCHANGED thrVars

\* ofxFFmpeg.cpp:58-66: the output path checks.  Line 58 reads the argument,
\* line 63 reads the member m_settings (the settings of the previous start).
outputPathRejected ==
    \/ settings.outputPath = ""
    \/ doesFileExist(m_settings.outputPath) /\ ~m_settings.allowOverwrite

\* ofxFFmpeg.cpp:58-74
start_adoptSettings ==
    /\ cpc = "start_settings"
    /\ IF outputPathRejected
          THEN /\ startReturn(FALSE)
               /\ UNCHANGED <<m_settings, m_nAddedFrames>>
          ELSE /\ m_settings' = settings
               /\ m_nAddedFrames' = 0
               /\ startGoto("start_isopen")
    /\ UNCHANGED <<m_isRecording, m_isReady, m_shouldQuitProcessing,
                   m_ffmpegPipe, m_recordStartTime, m_frames>>
    /\ UNCHANGED <<thrVars, envVars>>

\* ofxFFmpeg.cpp:103
start_isPipeOpen ==
    /\ cpc = "start_isopen"
    /\ IF isPipeOpen THEN startGoto("start_close") ELSE startGoto("start_quit")
    /\ UNCHANGED <<recVars, thrVars, envVars>>

\* ofxFFmpeg.cpp:104
start_closePipe ==
    /\ cpc = "start_close"
    /\ closePipe
    /\ startGoto("start_quit")
    /\ UNCHANGED <<m_settings, m_isRecording, m_shouldQuitProcessing,
                   m_recordStartTime, m_nAddedFrames, m_frames>>
    /\ UNCHANGED <<thrVars, envVars>>

\* ofxFFmpeg.cpp:107
start_resetQuit ==
    /\ cpc = "start_quit"
    /\ m_shouldQuitProcessing' = FALSE
    /\ startGoto("start_open")
    /\ UNCHANGED <<m_settings, m_isRecording, m_isReady, m_ffmpegPipe,
                   m_recordStartTime, m_nAddedFrames, m_frames>>
    /\ UNCHANGED <<thrVars, envVars>>

\* Recorder::openPipe (ofxFFmpeg.cpp:284-300) with popen succeeding (ok) or
\* failing, all under m_pipeMtx
openPipe(ok) ==
    IF ok
       THEN /\ nOpened' = nOpened + 1
            /\ m_ffmpegPipe' = nOpened + 1
            /\ m_isReady' = FALSE
       ELSE /\ nOpened' = nOpened
            /\ m_ffmpegPipe' = NullPipe
            /\ m_isReady' = TRUE

\* ofxFFmpeg.cpp:111-118; when popen fails start returns m_isRecording
start_openPipe ==
    /\ cpc = "start_open"
    /\ \E ok \in BOOLEAN :
          /\ openPipe(ok)
          /\ IF ok THEN startGoto("start_rec") ELSE startReturn(m_isRecording)
    /\ UNCHANGED <<m_settings, m_isRecording, m_shouldQuitProcessing,
                   m_recordStartTime, m_nAddedFrames, m_frames>>
    /\ UNCHANGED <<now, nPushed, sinkLog, forced, cancelled, writeFailed, sessionStart>>
    /\ UNCHANGED thrVars

\* ofxFFmpeg.cpp:113, 118
start_setRecording ==
    /\ cpc = "start_rec"
    /\ m_isRecording' = TRUE
    /\ sessionStart' = now
    /\ startReturn(TRUE)
    /\ UNCHANGED <<m_settings, m_isReady, m_shouldQuitProcessing, m_ffmpegPipe,
                   m_recordStartTime, m_nAddedFrames, m_frames>>
    /\ UNCHANGED <<now, nOpened, nPushed, sinkLog, forced, cancelled, writeFailed>>
    /\ UNCHANGED thrVars

start ==
    \/ start_call
    \/ start_checkRecording
    \/ start_checkReady
    \/ start_clearQueue
    \/ start_adoptSettings
    \/ start_isPipeOpen
    \/ start_closePipe
    \/ start_resetQuit
    \/ start_openPipe
    \/ start_setRecording

(* ------------------------- caller: stop -------------------------------- *)
\* Recorder::stop (ofxFFmpeg.cpp:122-125)
stop ==
    /\ cpc = "idle"
    /\ m_isRecording' = FALSE
    /\ ret' = Returned("stop", FALSE, 0)
    /\ sessionStart' = 0
    /\ UNCHANGED <<cpc, settings, forceIfNotReady, argPixels, framesToWrite, written>>
    /\ UNCHANGED <<m_settings, m_isReady, m_shouldQuitProcessing, m_ffmpegPipe,
                   m_recordStartTime, m_nAddedFrames, m_frames>>
    /\ UNCHANGED <<now, nOpened, nPushed, sinkLog, forced, cancelled, writeFailed>>
    /\ UNCHANGED thrVars

(* ------------------------ caller: addFrame ----------------------------- *)
\* leaving addFrame() with value v
addFrameReturn(v) ==
    /\ cpc' = "idle"
    /\ ret' = Returned("addFrame", FALSE, v)
    /\ framesToWrite' = 0
    /\ written' = 0
    /\ argPixels' = NoArgPixels
    /\ UNCHANGED <<settings, forceIfNotReady>>

\* inside addFrame(), moving to position p
addFrameGoto(p) ==
    /\ cpc' = p
    /\ UNCHANGED <<settings, forceIfNotReady, argPixels, framesToWrite, written>>

\* ofxFFmpeg.cpp:141-156: the caller calls addFrame( pixels ); the call is
\* rejected when not recording, when the pipe is null or when the pixels are
\* not allocated
addFrame_call ==
    /\ cpc = "idle"
    /\ \E p \in PixelsInputs :
          IF ~m_isRecording \/ m_ffmpegPipe = NullPipe \/ ~p.isAllocated
             THEN addFrameReturn(0)
             ELSE /\ ret' = Returned("none", FALSE, 0)
                  /\ argPixels' = p
                  /\ cpc' = IF m_nAddedFrames = 0 THEN "add_thread"
                                                  ELSE "add_delta"
                  /\ UNCHANGED <<settings, forceIfNotReady, framesToWrite,
                                 written>>
    /\ UNCHANGED <<recVars, thrVars, envVars>>

\* ofxFFmpeg.cpp:157-160: join the previous draining thread (blocks until it
\* has returned), start a new one, take the start time
addFrame_startThread ==
    /\ cpc = "add_thread"
    /\ tpc \in {"none", "done"}
    /\ tpc' = "outer"
    /\ pixels' = NoPixels
    /\ fwritten' = "none"
    /\ usedPipe' = NullPipe
    /\ needsQuit' = FALSE
    /\ m_recordStartTime' = now
    /\ addFrameGoto("add_delta")
    /\ UNCHANGED ret
    /\ UNCHANGED <<m_settings, m_isRecording, m_isReady, m_shouldQuitProcessing,
                   m_ffmpegPipe, m_nAddedFrames, m_frames>>
    /\ cancelled' = FALSE
    /\ sessionStart' = 0
    /\ UNCHANGED <<now, nOpened, nPushed, sinkLog, forced, writeFailed>>

\* ofxFFmpeg.cpp:164-167
addFrame_computeDelta ==
    /\ cpc = "add_delta"
    /\ \E f \in SizeTOf(DueNum(now, m_recordStartTime, m_nAddedFrames,
                               m_settings.fps), TicksPerSecond) :
          framesToWrite' = f
    /\ written' = 0
    /\ cpc' = "add_loop"
    /\ UNCHANGED <<settings, forceIfNotReady, argPixels, ret>>
    /\ UNCHANGED <<recVars, thrVars, envVars>>

\* the loop condition pushing one entry too many (>= for >)
addFrameLoopCondition_offByOne == m_nAddedFrames = 0 \/ framesToWrite >= written

\* the loop condition without the first-frame rule
addFrameLoopCondition_noFirstFrame == framesToWrite > written

\* ofxFFmpeg.cpp:170: the condition of the loop
addFrameLoopCondition == m_nAddedFrames = 0 \/ framesToWrite > written

\* ofxFFmpeg.cpp:172-188: the entry produced by one turn of the loop: the
\* owning copy when written == framesToWrite - 1, else a view of it
addFrameEntry ==
    [id   |-> nPushed + 1,
     sub  |-> nPushed + 1 - written,
     sess |-> nOpened,
     own  |-> (written = SizeMinusOne(framesToWrite))]

\* addFrame_loop counting the calls instead of the entries: the frame counter
\* grows on the first turn of the loop only
addFrame_loop_countsCalls ==
    /\ cpc = "add_loop"
    /\ IF addFrameLoopCondition
          THEN /\ nPushed < MaxPush
               /\ m_frames' = produce(m_frames, addFrameEntry)
               /\ nPushed' = nPushed + 1
               /\ m_nAddedFrames' = IF written = 0 THEN m_nAddedFrames + 1
                                                   ELSE m_nAddedFrames
               /\ written' = written + 1
               /\ UNCHANGED <<cpc, settings, forceIfNotReady, argPixels, framesToWrite, ret>>
          ELSE /\ addFrameReturn(written)
               /\ UNCHANGED <<m_frames, nPushed, m_nAddedFrames>>
    /\ UNCHANGED <<m_settings, m_isRecording, m_isReady, m_shouldQuitProcessing,
                   m_ffmpegPipe, m_recordStartTime>>
    /\ UNCHANGED <<now, nOpened, sinkLog, forced, cancelled, writeFailed, sessionStart>>
    /\ UNCHANGED thrVars

\* ofxFFmpeg.cpp:170-195: one turn of the loop, or the return
addFrame_loop ==
    /\ cpc = "add_loop"
    /\ IF addFrameLoopCondition
          THEN /\ nPushed < MaxPush
               /\ m_frames' = produce(m_frames, addFrameEntry)
               /\ nPushed' = nPushed + 1
               /\ m_nAddedFrames' = m_nAddedFrames + 1
               /\ written' = written + 1
               /\ UNCHANGED <<cpc, settings, forceIfNotReady, argPixels, framesToWrite, ret>>
          ELSE /\ addFrameReturn(written)
               /\ UNCHANGED <<m_frames, nPushed, m_nAddedFrames>>
    /\ UNCHANGED <<m_settings, m_isRecording, m_isReady, m_shouldQuitProcessing,
                   m_ffmpegPipe, m_recordStartTime>>
    /\ UNCHANGED <<now, nOpened, sinkLog, forced, cancelled, writeFailed, sessionStart>>
    /\ UNCHANGED thrVars

addFrame ==
    \/ addFrame_call
    \/ addFrame_startThread
    \/ addFrame_computeDelta
    \/ addFrame_loop

(* ------------------ draining thread: processFrame ---------------------- *)
\* inside processFrame(), moving to position p
processFrameGoto(p) ==
    /\ tpc' = p
    /\ UNCHANGED <<pixels, fwritten, usedPipe>>

\* ofxFFmpeg.cpp:201-206: the condition of the outer loop; needsQuit is
\* declared false in its body
processFrame_outer ==
    /\ tpc = "outer"
    /\ IF m_isRecording /\ ~m_shouldQuitProcessing
          THEN /\ processFrameGoto("inner")
               /\ needsQuit' = FALSE
          ELSE /\ processFrameGoto("close")
               /\ UNCHANGED needsQuit
    /\ UNCHANGED <<recVars, callVars, envVars>>

\* ofxFFmpeg.cpp:208-213, 255: the condition of the inner loop.  The wait for
\* delta >= framedur (lines 211-213) returns here without changing anything;
\* the step to "consume" is taken once the frame duration has elapsed.
processFrame_inner ==
    /\ tpc = "inner"
    /\ IF numFramesInQueue > 0 /\ ~m_shouldQuitProcessing
          THEN processFrameGoto("consume")
          ELSE processFrameGoto("outer")
    /\ UNCHANGED needsQuit
    /\ UNCHANGED <<recVars, callVars, envVars>>

\* processFrame_consume reading the head of the queue without removing it
processFrame_consume_keepsEntry ==
    /\ tpc = "consume"
    /\ IF m_frames = << >>
          THEN /\ tpc' = "inner"
               /\ UNCHANGED pixels
          ELSE /\ pixels' = consumeHead(m_frames)
               /\ tpc' = "write"
    /\ UNCHANGED m_frames
    /\ UNCHANGED <<fwritten, usedPipe, needsQuit>>
    /\ UNCHANGED <<m_settings, m_isRecording, m_isReady, m_shouldQuitProcessing,
                   m_ffmpegPipe, m_recordStartTime, m_nAddedFrames>>
    /\ UNCHANGED <<callVars, envVars>>

\* ofxFFmpeg.cpp:219-226: consume under m_queueMtx; a failed consume logs
\* and returns to the inner loop
processFrame_consume ==
    /\ tpc = "consume"
    /\ IF m_frames = << >>
          THEN /\ tpc' = "inner"
               /\ UNCHANGED <<pixels, m_frames>>
          ELSE /\ pixels' = consumeHead(m_frames)
               /\ m_frames' = consumeRest(m_frames)
               /\ tpc' = "write"
    /\ UNCHANGED <<fwritten, usedPipe, needsQuit>>
    /\ UNCHANGED <<m_settings, m_isRecording, m_isReady, m_shouldQuitProcessing,
                   m_ffmpegPipe, m_recordStartTime, m_nAddedFrames>>
    /\ UNCHANGED <<callVars, envVars>>

\* what fwrite can answer on an open stream: the full length, a short count,
\* or the full length with the stream's error indicator set
FwriteOutcomes == {"full", "short", "error"}

\* ofxFFmpeg.cpp:232-234: the write under m_pipeMtx; a null pipe writes 0.
\* A write of the full length delivers the frame to the sink.
processFrame_write ==
    /\ tpc = "write"
    /\ IF m_ffmpegPipe = NullPipe
          THEN /\ fwritten' = "zero"
               /\ UNCHANGED sinkLog
          ELSE \E o \in FwriteOutcomes :
                  /\ fwritten' = o
                  /\ sinkLog' = IF o = "short" THEN sinkLog
                                ELSE Append(sinkLog,
                                       [pipe |-> m_ffmpegPipe, frame |-> pixels])
    /\ usedPipe' = m_ffmpegPipe
    /\ tpc' = "check"
    /\ UNCHANGED <<pixels, needsQuit>>
    /\ UNCHANGED <<now, nOpened, nPushed, forced, cancelled, writeFailed, sessionStart>>
    /\ UNCHANGED <<recVars, callVars>>

\* ofxFFmpeg.cpp:236: written <= 0 || written != dataLength ||
\* ferror( m_ffmpegPipe ).  ferror reads m_ffmpegPipe outside m_pipeMtx: on a
\* stream that was closed, nulled or replaced since the write its answer is
\* undefined.
writeErrorOutcomes ==
    IF fwritten \in {"zero", "short"} THEN {TRUE}
    ELSE IF m_ffmpegPipe = usedPipe THEN {fwritten = "error"}
    ELSE BOOLEAN

\* processFrame_check without the break out of the loops on a failed write
processFrame_check_noBreak ==
    /\ tpc = "check"
    /\ \E failed \in writeErrorOutcomes :
          /\ needsQuit' = failed
          /\ writeFailed' = (writeFailed \/ failed)
    /\ tpc' = "inner"
    /\ pixels' = NoPixels
    /\ UNCHANGED <<fwritten, usedPipe>>
    /\ UNCHANGED <<now, nOpened, nPushed, sinkLog, forced, cancelled, sessionStart>>
    /\ UNCHANGED <<recVars, callVars>>

\* ofxFFmpeg.cpp:236-253: the error check, the delete of the frame and the
\* break out of both loops
processFrame_check ==
    /\ tpc = "check"
    /\ \E failed \in writeErrorOutcomes :
          /\ needsQuit' = failed
          /\ writeFailed' = (writeFailed \/ failed)
          /\ tpc' = IF failed THEN "close" ELSE "inner"
    /\ pixels' = NoPixels
    /\ UNCHANGED <<fwritten, usedPipe>>
    /\ UNCHANGED <<now, nOpened, nPushed, sinkLog, forced, cancelled, sessionStart>>
    /\ UNCHANGED <<recVars, callVars>>

\* ofxFFmpeg.cpp:262: closePipe, then the thread returns
processFrame_closePipe ==
    /\ tpc = "close"
    /\ closePipe
    /\ tpc' = "done"
    /\ UNCHANGED <<pixels, fwritten, usedPipe, needsQuit>>
    /\ UNCHANGED <<m_settings, m_isRecording, m_shouldQuitProcessing,
                   m_recordStartTime, m_nAddedFrames, m_frames>>
    /\ UNCHANGED <<callVars, envVars>>

processFrame ==
    \/ processFrame_outer
    \/ processFrame_inner
    \/ processFrame_consume
    \/ processFrame_write
    \/ processFrame_check
    \/ processFrame_closePipe

(* ------------------------ caller: wantsFrame --------------------------- *)
\* ofxFFmpeg.cpp:128-136: true when recording, the pipe is open and the
\* size_t made of delta * fps is > 0.  m_recordStartTime is the member as it
\* stands: start() does not set it, the first addFrame of a session does.
wantsFrame ==
    /\ cpc = "idle"
    /\ IF m_isRecording /\ isPipeOpen
          THEN \E f \in SizeTOf(DueNum(now, m_recordStartTime, m_nAddedFrames,
                                      m_settings.fps), TicksPerSecond) :
                  ret' = Returned("wantsFrame", f > 0, 0)
          ELSE ret' = Returned("wantsFrame", FALSE, 0)
    /\ UNCHANGED <<cpc, settings, forceIfNotReady, argPixels, framesToWrite, written>>
    /\ UNCHANGED <<recVars, thrVars, envVars>>

(* ---------------------------- the clock -------------------------------- *)
\* Clock::now() advances
Tick ==
    /\ now < MaxTime
    /\ now' = now + 1
    /\ UNCHANGED <<nOpened, nPushed, sinkLog, forced, cancelled, writeFailed, sessionStart>>
    /\ UNCHANGED <<recVars, thrVars, callVars>>

(* ------------------------- specifications ------------------------------ *)
Next ==
    \/ start
    \/ stop
    \/ addFrame
    \/ wantsFrame
    \/ processFrame
    \/ Tick

Spec == Init /\ [][Next]_vars

(* ------------------------------ claims --------------------------------- *)
\* the frames the sinks received, in the order they were written
writtenFrames == [i \in 1..Len(sinkLog) |-> sinkLog[i].frame]

\* C1: the draining thread writes the queue entries in the order addFrame
\* pushed them (ids grow strictly along the sink log: no reordering, no entry
\* written twice), and the entries of one submission are written
\* contiguously, before any entry of the next submission.
C1_WriteOrderIsPushOrder ==
    /\ \A i, j \in 1..Len(sinkLog) :
          i < j => writtenFrames[i].id < writtenFrames[j].id
    /\ \A i, j, k \in 1..Len(sinkLog) :
          (i < j /\ j < k /\ writtenFrames[i].sub = writtenFrames[k].sub)
             => writtenFrames[j].sub = writtenFrames[i].sub

\* C1 witness: two replicas of one submission and an entry of another
\* submission have been written
C1_Witness ==
    /\ Len(sinkLog) >= 3
    /\ \E i, j \in 1..Len(sinkLog) :
          /\ i # j
          /\ writtenFrames[i].sub = writtenFrames[j].sub
    /\ \E i, j \in 1..Len(sinkLog) : writtenFrames[i].sub # writtenFrames[j].sub

\* C2: every entry pushed before stop() is written by the draining thread,
\* provided no sink write fails and no forced restart occurs: when the thread
\* has returned, nothing is left in the queue.
C2_QueuedFramesAreWritten ==
    (tpc = "done" /\ ~writeFailed /\ ~forced) => m_frames = << >>

\* C3: once a forced restart has set the quit flag and cleared the queue, the
\* previous draining thread writes no further frame to any sink.
C3_CancelledDrainWritesNothing ==
    [][cancelled => sinkLog' = sinkLog]_vars

\* C4: when a sink write fails the draining thread leaves its loops (it goes
\* to closePipe), writes no further frame whatever the queue holds, and on
\* its closePipe the sink is closed and isReady() is true.
C4_WriteFailureEndsDrain ==
    /\ [](needsQuit => tpc \in {"close", "done"})
    /\ [][(tpc = "check" /\ needsQuit') => tpc' = "close"]_vars
    /\ [][needsQuit => sinkLog' = sinkLog]_vars
    /\ [][(needsQuit /\ tpc = "close" /\ tpc' # tpc)
            => (tpc' = "done" /\ m_ffmpegPipe' = NullPipe /\ m_isReady')]_vars

\* C4 witness: the thread has returned after a failed write, the sink is
\* closed, isReady() is true and the queue is not empty
C4_Witness ==
    /\ tpc = "done"
    /\ needsQuit
    /\ fwritten \in {"short", "error"}
    /\ m_frames # << >>
    /\ m_ffmpegPipe = NullPipe
    /\ m_isReady

\* the caller takes a step of addFrame's loop (a push or the return)
addFrameLoopStep == cpc = "add_loop" /\ <<cpc, written>>' # <<cpc, written>>

\* addFrame returns
addFrameReturns == cpc = "add_loop" /\ cpc' = "idle"

\* C5 as stated: every accepted addFrame pushes at least one entry and
\* returns a count >= 1.
C5_AcceptedFramePushesAtLeastOne ==
    [][addFrameReturns => ret'.count >= 1]_vars

\* C5 amended: an accepted addFrame pushes exactly framesToWrite entries, or
\* exactly one when it is the first frame of the session and framesToWrite
\* is 0, and returns the number it pushed; each turn of its loop pushes one
\* entry.
C5_AcceptedFramePushesDueCount ==
    /\ [][addFrameReturns
            => /\ ret'.count = written
               /\ \/ written = framesToWrite
                  \/ framesToWrite = 0 /\ written = 1 /\ m_nAddedFrames = 1]_vars
    /\ [][(addFrameLoopStep /\ ~addFrameReturns)
            => /\ written' = written + 1
               /\ nPushed' = nPushed + 1
               /\ Len(m_frames') = Len(m_frames) + 1]_vars

\* C5 witness: an accepted frame, not the first of its session, arrives when
\* no frame slot is due, and addFrame returns 0 without a push
C5_Witness ==
    /\ cpc = "add_loop"
    /\ m_nAddedFrames > 0
    /\ framesToWrite = 0
    /\ written = 0
    /\ ~addFrameLoopCondition

\* C6: the first accepted addFrame of a session (frame counter 0) pushes an
\* entry on the first turn of its loop whatever framesToWrite is, and returns
\* a count >= 1.
C6_FirstFramePushesAtLeastOne ==
    /\ [][(addFrameLoopStep /\ m_nAddedFrames = 0)
            => /\ written' = 1
               /\ nPushed' = nPushed + 1
               /\ Len(m_frames') = Len(m_frames) + 1]_vars
    /\ [][(addFrameReturns /\ written = m_nAddedFrames) => ret'.count >= 1]_vars

\* C6 witness: the first frame of a session has pushed one entry although
\* its framesToWrite is 0
C6_Witness ==
    /\ cpc = "add_loop"
    /\ framesToWrite = 0
    /\ written = 1
    /\ m_nAddedFrames = 1
    /\ \E i \in 1..Len(m_frames) : m_frames[i].sess = nOpened

\* C7: start() called while recording returns false and changes nothing of
\* the recorder or of the draining thread.
C7_StartWhileRecordingChangesNothing ==
    [][(cpc = "start" /\ m_isRecording /\ cpc' # cpc)
         => /\ cpc' = "idle"
            /\ ret' = Returned("start", FALSE, 0)
            /\ UNCHANGED <<recVars, thrVars, nOpened, nPushed, sinkLog>>]_vars

\* C7 witness: start() has returned false during a session with queued frames
C7_Witness ==
    /\ cpc = "idle"
    /\ ret = Returned("start", FALSE, 0)
    /\ m_isRecording
    /\ m_ffmpegPipe # NullPipe
    /\ m_nAddedFrames > 0
    /\ m_frames # << >>

\* the settings passed to start() name no output, or an existing file that
\* they do not allow to overwrite
badOutputPath(s) ==
    \/ s.outputPath = ""
    \/ doesFileExist(s.outputPath) /\ ~s.allowOverwrite

\* C8: start(settings) returns false, opens no sink and leaves the recorder
\* not recording whenever the settings passed have an empty output path, or
\* name an existing file and disallow overwrite.
C8_BadOutputPathIsRejected ==
    [][(cpc \in {"start", "start_ready", "start_clear", "start_settings"}
          /\ badOutputPath(settings) /\ cpc' # cpc)
         => /\ cpc' \in {"start_ready", "start_clear", "start_settings", "idle"}
            /\ cpc' = "idle" => ret' = Returned("start", FALSE, 0)
            /\ nOpened' = nOpened
            /\ m_isRecording' = m_isRecording]_vars

\* C9: isReady() is true only if no pipe is open and no draining thread is
\* still running.
C9_ReadyOnlyIfClosedAndNotDraining ==
    m_isReady => (m_ffmpegPipe = NullPipe /\ tpc \in {"none", "done"})

\* C10: addFrame never waits for the draining thread: when it reaches the
\* join of the previous thread, that thread has already returned.
C10_AddFrameNeverWaitsForDrain ==
    cpc = "add_thread" => tpc \in {"none", "done"}

\* start() resets the frame counter (ofxFFmpeg.cpp:74)
startResetsCounter == cpc = "start_settings" /\ cpc' = "start_isopen"

\* C11: getRecordedDuration() is the frame counter divided by the configured
\* fps (ofxFFmpeg.h:33), and the counter counts the queue entries pushed
\* since the start() that last reset it: only that start() sets it (to 0),
\* every other step changes it by the number of entries pushed in the step,
\* and addFrame returns the number of entries it pushed.
C11_CounterCountsPushedEntries ==
    /\ [][IF startResetsCounter
             THEN m_nAddedFrames' = 0 /\ nPushed' = nPushed
             ELSE m_nAddedFrames' - m_nAddedFrames = nPushed' - nPushed]_vars
    /\ [][(cpc = "add_loop" /\ cpc' = "add_loop")
             => written' - written = nPushed' - nPushed]_vars
    /\ [][(cpc = "add_delta" /\ cpc' = "add_loop") => written' = 0]_vars
    /\ [][addFrameReturns => ret'.count = written]_vars

\* C11 witness: in a second session addFrame has returned 1 and the counter
\* is 1, after entries were pushed in the first session
C11_Witness ==
    /\ cpc = "idle"
    /\ nOpened = 2
    /\ m_isRecording
    /\ ret = Returned("addFrame", FALSE, 1)
    /\ m_nAddedFrames = 1
    /\ nPushed >= 2

\* ((now - startTime) - counter / fps) * fps at the caller's clock reading,
\* as a number of TicksPerSecond-ths
framesDueNum ==
    (now - m_recordStartTime) * m_settings.fps - m_nAddedFrames * TicksPerSecond

\* addFrame computes its due count for a frame that is not the first of the
\* session
laterFrameComputesDue ==
    cpc = "add_delta" /\ cpc' = "add_loop" /\ m_nAddedFrames > 0

\* addFrame returns from a frame that was not the first of the session
laterFrameReturns == addFrameReturns /\ m_nAddedFrames > written

C15_LastEntryOwnsTheCopy ==
    [][(addFrameLoopStep /\ ~addFrameReturns)
          => (m_frames'[Len(m_frames')].own <=> ~addFrameLoopCondition')]_vars

\* C16: the draining context's accesses to the pipe handle exclude
\* closePipe/openPipe of the caller's start(): when it checks the stream for
\* an error after a write of the full length, the handle is still the one it
\* wrote to, neither closed and null nor replaced by a later session's.
C16_ErrorCheckUsesTheWrittenHandle ==
    (tpc = "check" /\ fwritten \in {"full", "error"}) => m_ffmpegPipe = usedPipe

\* the caller is inside start()
callerInStart == cpc \notin {"idle", "add_thread", "add_delta", "add_loop"}

\* C17: whenever the caller is not inside start(), isRecording() implies
\* that the sink is open and isReady() is false.
C17_RecordingImpliesOpenSink ==
    (~callerInStart /\ m_isRecording) => (isPipeOpen /\ ~m_isReady)

\* a draining thread exists and has not yet returned
drainingThreadRuns == tpc \notin {"none", "done"}

\* C18: after stop() on a session that start() put into Recording the
\* recorder gets to isReady() = true with the sink closed, with or without a
\* frame submitted.  No call of the caller but start() closes the pipe, so
\* the draining thread has to: as long as the stopped recorder is not ready
\* and the caller is idle, a draining thread is still running.
C18_StoppedRecorderGetsReady ==
    (cpc = "idle" /\ ~m_isRecording /\ ~(m_isReady /\ ~isPipeOpen))
        => drainingThreadRuns

\* start() has just returned true
startSucceeded == cpc = "idle" /\ ret = Returned("start", TRUE, 0)

\* every frame delivered to a sink was pushed in the session of that sink
sinkHoldsOwnSessionOnly ==
    \A i \in 1..Len(sinkLog) : sinkLog[i].frame.sess = sinkLog[i].pipe

\* C19: whenever start() succeeds the queue is empty, and every frame
\* written to a session's sink was pushed by an addFrame of that session.
C19_NoLeftoverInLaterSession ==
    /\ startSucceeded => m_frames = <<>>
    /\ sinkHoldsOwnSessionOnly

\* C20: in a session after its first accepted frame the frame counter is at
\* most floor((now - startTime) * fps) + 1; so whenever addFrame computes
\* its due count, ((now - startTime) - counter/fps) * fps is greater than -1,
\* and the due count is never a wrapped negative value.
C20_CounterAtMostOneSlotAhead ==
    /\ m_nAddedFrames > 0
         => (m_nAddedFrames - 1) * TicksPerSecond
               <= (now - m_recordStartTime) * m_settings.fps
    /\ (cpc = "add_delta" /\ m_nAddedFrames > 0) => framesDueNum > -TicksPerSecond
    /\ framesToWrite # SizeMax

\* wantsFrame() returns
wantsFrameReturns ==
    /\ cpc = "idle"
    /\ ret' # ret
    /\ ret'.call = "wantsFrame"

\* the start time of the running session: the one taken at its first frame,
\* and before that frame the one at which start() opened the session
currentSessionStart ==
    IF m_nAddedFrames > 0 THEN m_recordStartTime ELSE sessionStart

\* floor of (now - startTime - recordedDuration) * fps, measured from the
\* start time of the running session
slotsDue ==
    ((now - currentSessionStart) * m_settings.fps
        - m_nAddedFrames * TicksPerSecond) \div TicksPerSecond

\* C12: wantsFrame() returns true if and only if the recorder is recording,
\* the sink is open and the number of frame slots due, measured from the
\* start time of the current session, is greater than 0.
C12_WantsFrameIffSlotsDue ==
    [][wantsFrameReturns
          => (ret'.ok <=> (m_isRecording /\ isPipeOpen /\ slotsDue > 0))]_vars

\* addFrame accepts the frame it was called with
addFrameAccepts == cpc = "idle" /\ cpc' \in {"add_thread", "add_delta"}

\* C13: addFrame rejects, returning 0 and pushing nothing, every frame whose
\* dimensions differ from the configured resolution: a frame that addFrame
\* accepts has these dimensions, and so has the frame of which a turn of the
\* loop pushes an entry (width * height * 3 bytes, the length of the write).
C13_MismatchedFrameIsRejected ==
    /\ [][addFrameAccepts => argPixels'.fits]_vars
    /\ [][(addFrameLoopStep /\ ~addFrameReturns) => argPixels.fits]_vars

====
